---- MODULE Spec2Model ----
(***************************************************************************)
(* Model of the RSS feed monitoring engine of carter-bot: the RSSManager   *)
(* singleton (utils/rssManager.js), driven by index.js and by node-cron.   *)
(*                                                                         *)
(* Every async method is a process that runs atomically from one await to  *)
(* the next (JavaScript's run-to-completion); the await points are the pc  *)
(* values of the in-flight invocations kept in `ticks` (checkFeed) and     *)
(* `calls` (addFeed / removeFeed). The messageCreate event with the newrss  *)
(* and removerss commands is the command layer (`cmds`, `cooldowns`).      *)
(***************************************************************************)
EXTENDS Integers, Sequences, FiniteSets, TLC

VARIABLES
    phase,        \* index.js: "constructed" -> "loaded" -> "configured" -> "running" -> "exited"
    config,       \* this.config (defaultInterval, maxFeedsPerChannel)
    client,       \* this.client is set
    feeds,        \* this.feeds: Map channelId -> Map feedUrl -> feedInfo object (a reference into objs)
    objs,         \* the feedInfo objects ever created, by reference
    cronJobs,     \* this.cronJobs: Map feedKey -> started job
    feedsFile,    \* data/feeds.json
    configFile,   \* data/config.json
    ticks,        \* checkFeed invocations, in the order the cron jobs fired them
    calls,        \* addFeed / removeFeed invocations, in the order they were called
    now,          \* the wall clock read by new Date(), in cron firings seen so far
    delivered,    \* per feedInfo object: guids channel.send has delivered
    redelivered,  \* per feedInfo object: guids channel.send has delivered more than once
    time,         \* Date.now() as messageCreate reads it, in seconds
    cooldowns,    \* client.cooldowns: Map command name -> Map author id -> timestamp
    timers,       \* the setTimeout callbacks of messageCreate that have not run yet
    cmds          \* messageCreate invocations for the RSS commands, in the order of the messages

\* the state of the command layer (events/messageCreate.js, commands/rss)
cmdVars == <<time, cooldowns, timers, cmds>>

vars == <<phase, config, client, feeds, objs, cronJobs, feedsFile, configFile,
          ticks, calls, now, delivered, redelivered, time, cooldowns, timers, cmds>>

-----------------------------------------------------------------------------
(* Bounds of the model *)

MaxItem == 7      \* guids 1..MaxItem; a provider document lists a newest-first run of them
MaxPolls == 1     \* cron firings per run (SpecPoll)
MaxOverlapPolls == 2  \* cron firings per run where checks may overlap (SpecOverlap)
MaxCalls == 2     \* addFeed / removeFeed calls per run (SpecRegistry)
MaxEngineCalls == 1   \* addFeed / removeFeed calls per run next to the polls (SpecEngine)
LowCap == 1       \* maxFeedsPerChannel values 1..LowCap a config.json may carry
MaxRestarts == 1  \* restarts of the bot, counted by the feedInfo objects of earlier runs (SpecRestart)
MaxMessages == 3  \* command messages per run (SpecCommands)
MaxTime == 15     \* seconds of wall clock a run covers (SpecCommands)

(* Program constants *)

DefaultInterval == 300000
DefaultMaxFeedsPerChannel == 10
MaxNewItems == 5
MsPerMinute == 60000
MaxIntervalMinutes == 1440

(* JavaScript's null and undefined; guids and timestamps are naturals *)
Null == -1
Undefined == -2

Truthy(v) == v # Null /\ v # Undefined

Channels == {"c1", "c2"}
Urls == {"u1", "u2"}

-----------------------------------------------------------------------------
(* Map helpers (JavaScript Map / plain object) *)

EmptyMap == << >>
Has(m, k) == k \in DOMAIN m
Put(m, k, v) == [x \in (DOMAIN m) \cup {k} |-> IF x = k THEN v ELSE m[x]]
Del(m, k) == [x \in (DOMAIN m) \ {k} |-> m[x]]
Size(m) == Cardinality(DOMAIN m)

Reverse(s) == [i \in 1..Len(s) |-> s[Len(s) + 1 - i]]

Max2(a, b) == IF a >= b THEN a ELSE b

-----------------------------------------------------------------------------
(* Feed documents, as rss-parser returns them: feed.items, newest first.   *)
(* An item is known to checkFeed by item.guid alone; rss-parser leaves     *)
(* guid undefined for an item without a <guid> element.                    *)

Item(g) == [guid |-> g]

\* the provider's run of items hi, hi-1, ..., 1
Window(hi) == [i \in 1..hi |-> Item(hi + 1 - i)]

FreeGuids == {1, Undefined}

\* documents a fetch may return: provider runs, and short documents in any
\* order with missing guids; a guid that is present identifies one item of the
\* document. Titles, links and dates of items only fill the embed and are left out.
Docs ==
    {Window(hi) : hi \in 0..MaxItem}
        \cup {<<Item(a)>> : a \in FreeGuids}
        \cup {<<Item(p[1]), Item(p[2])>> :
                 p \in {q \in FreeGuids \X FreeGuids : q[1] # q[2] \/ q[1] = Undefined}}

\* the documents of a young feed: empty, its first two items, or one item without guid
SmallDocs == {Window(0), Window(2), <<Item(Undefined)>>}

\* those of them whose items all carry a guid
PlainDocs == {Window(0), Window(2)}

-----------------------------------------------------------------------------
(* Persistence: data/feeds.json and data/config.json *)

\* Date.prototype.toISOString and new Date(isoString)
ToISOString(t) == <<"iso", t>>
JsonNull == <<"null">>
ParseDate(s) == s[2]

\* PersistEntry with the date of the last check left out
PersistEntryNoDate(o) ==
    [url |-> o.url,
     interval |-> o.interval,
     lastChecked |-> JsonNull,
     lastPostId |-> o.lastPostId,
     active |-> o.active]

\* one feedInfo as saveFeeds writes it; JSON drops a property that is undefined,
\* and reading a dropped property yields undefined again
PersistEntry(o) ==
    [url |-> o.url,
     interval |-> o.interval,
     lastChecked |-> IF o.lastChecked # Null THEN ToISOString(o.lastChecked) ELSE JsonNull,
     lastPostId |-> o.lastPostId,
     active |-> o.active]

\* the feedData object saveFeeds builds before it awaits the write
FeedData(f, os) ==
    [d \in DOMAIN f |-> [u \in DOMAIN f[d] |-> PersistEntry(os[f[d][u]])]]

JsonFile(data) == [state |-> "json", data |-> data]
MissingFile == [state |-> "missing", data |-> EmptyMap]
CorruptFile == [state |-> "corrupt", data |-> EmptyMap]

\* one feedInfo as loadFeeds rebuilds it from a persisted record
LoadEntry(r, cfg) ==
    [url |-> r.url,
     interval |-> IF Truthy(r.interval) /\ r.interval # 0 THEN r.interval ELSE cfg.defaultInterval,
     lastChecked |-> IF r.lastChecked # JsonNull THEN ParseDate(r.lastChecked) ELSE Null,
     lastPostId |-> IF Truthy(r.lastPostId) THEN r.lastPostId ELSE Null,
     active |-> r.active # FALSE]

\* the (channelId, feedUrl) pairs of a persisted object, in a fixed order
RECURSIVE SetToSeq(_)
SetToSeq(S) ==
    IF S = {} THEN << >>
    ELSE LET x == CHOOSE y \in S : TRUE IN <<x>> \o SetToSeq(S \ {x})

PairsOf(data) ==
    SetToSeq({p \in Channels \X Urls : Has(data, p[1]) /\ Has(data[p[1]], p[2])})

IndexOf(seq, x) == CHOOSE i \in 1..Len(seq) : seq[i] = x

\* snapshots an earlier run of the bot may have left in data/feeds.json
SavedEntry(u, w) ==
    [url |-> u, interval |-> DefaultInterval, lastChecked |-> JsonNull,
     lastPostId |-> w, active |-> TRUE]

SavedWatermarks == {Null, 1, 3}

\* the guid of an item that has left the provider's document for good
RotatedWatermark == 0

\* a record saved with active: false; nothing in the bot writes one, an operator may
InactiveEntry(u) == [SavedEntry(u, Null) EXCEPT !.active = FALSE]

\* an interval of 30 seconds, as a config.json or a snapshot edited by hand may carry
ShortInterval == MsPerMinute \div 2

\* a record saved with that interval
ShortEntry(u) == [SavedEntry(u, Null) EXCEPT !.interval = ShortInterval]

OneFeedFile(r) == JsonFile([d \in {"c1"} |-> [u \in {r.url} |-> r]])

\* a snapshot with an inactive and an active feed
MixedFile ==
    JsonFile([d \in {"c1"} |->
                [u \in Urls |-> IF u = "u1" THEN InactiveEntry(u) ELSE SavedEntry(u, Null)]])

InitFeedsFiles ==
    {MissingFile, CorruptFile, OneFeedFile(InactiveEntry("u1")), MixedFile,
     OneFeedFile(ShortEntry("u1")), OneFeedFile(SavedEntry("u1", RotatedWatermark))}
        \cup {JsonFile([d \in {"c1"} |-> [u \in U |-> SavedEntry(u, w)]]) :
                U \in (SUBSET Urls) \ {{}}, w \in SavedWatermarks}

InitConfigFiles ==
    {MissingFile, JsonFile([defaultInterval |-> ShortInterval])}
        \cup {JsonFile([maxFeedsPerChannel |-> k]) : k \in 1..LowCap}

\* this.config = { ...this.config, ...configData }
MergeConfig(cfg, data) ==
    [k \in DOMAIN cfg |-> IF k \in DOMAIN data THEN data[k] ELSE cfg[k]]

DefaultConfig ==
    [defaultInterval |-> DefaultInterval, maxFeedsPerChannel |-> DefaultMaxFeedsPerChannel]

-----------------------------------------------------------------------------
(* In-flight invocations *)

Ticks == 1..Max2(MaxPolls, MaxOverlapPolls)
Calls == 1..Max2(MaxCalls, MaxEngineCalls)

IdleTick ==
    [pc |-> "idle", result |-> "none", channelId |-> "", feedUrl |-> "", ref |-> 0,
     items |-> << >>, seen |-> Null, newItems |-> << >>, i |-> 0, sent |-> << >>,
     feedData |-> EmptyMap]

DoneTick(res) == [IdleTick EXCEPT !.pc = "done", !.result = res]

IdleCall ==
    [pc |-> "idle", op |-> "none", result |-> "none", channelId |-> "", feedUrl |-> "",
     interval |-> Null, feedData |-> EmptyMap]

DoneCall(c, res) == [c EXCEPT !.pc = "done", !.result = res, !.feedData = EmptyMap]

\* the number of invocations started so far
Started(slots) == Cardinality({s \in DOMAIN slots : slots[s].pc # "idle"})

InFlight(slot) == slot.pc \notin {"idle", "done"}

Messages == 1..MaxMessages

IdleCmd ==
    [pc |-> "idle", command |-> "none", author |-> "", result |-> "none", at |-> Null,
     channelId |-> "", feedUrl |-> "", interval |-> Null, call |-> 0]

-----------------------------------------------------------------------------
(* The state after `new RSSManager()`, before index.js calls initialize() *)

Init ==
    /\ phase = "constructed"
    /\ config = DefaultConfig
    /\ client = FALSE
    /\ feeds = EmptyMap
    /\ objs = << >>
    /\ cronJobs = EmptyMap
    /\ feedsFile \in InitFeedsFiles
    /\ configFile \in InitConfigFiles
    /\ ticks = [t \in Ticks |-> IdleTick]
    /\ calls = [c \in Calls |-> IdleCall]
    /\ now = 0
    /\ delivered = << >>
    /\ redelivered = << >>
    /\ time = 0
    /\ cooldowns = EmptyMap
    /\ timers = {}
    /\ cmds = [k \in Messages |-> IdleCmd]

-----------------------------------------------------------------------------
(* initialize(): loadFeeds, then loadConfig *)

LoadedFeeds(data) ==
    LET order == PairsOf(data)
    IN [d \in DOMAIN data |-> [u \in DOMAIN data[d] |-> IndexOf(order, <<d, u>>)]]

LoadedObjs(data, cfg) ==
    LET order == PairsOf(data)
    IN [k \in 1..Len(order) |-> LoadEntry(data[order[k][1]][order[k][2]], cfg)]

\* the loaded feedInfo objects are new ones: their references follow those of the
\* n objects earlier runs of the bot created
Rebased(f, n) == [d \in DOMAIN f |-> [u \in DOMAIN f[d] |-> f[d][u] + n]]

\* LoadFeeds with a loader that gives up on a snapshot it cannot read
LoadFeedsRethrows ==
    /\ phase = "constructed"
    /\ IF feedsFile.state = "json"
       THEN /\ phase' = "loaded"
            /\ feeds' = Rebased(LoadedFeeds(feedsFile.data), Len(objs))
            /\ objs' = objs \o LoadedObjs(feedsFile.data, config)
       ELSE /\ phase' = "exited"
            /\ feeds' = EmptyMap
            /\ objs' = objs
    /\ delivered' = [k \in DOMAIN objs' |-> IF k \in DOMAIN delivered THEN delivered[k] ELSE {}]
    /\ redelivered' = [k \in DOMAIN objs' |->
                        IF k \in DOMAIN redelivered THEN redelivered[k] ELSE {}]
    /\ UNCHANGED <<config, client, cronJobs, feedsFile, configFile, ticks, calls,
                   now>>
    /\ UNCHANGED cmdVars

LoadFeeds ==
    /\ phase = "constructed"
    /\ phase' = "loaded"
    /\ IF feedsFile.state = "json"
       THEN /\ feeds' = Rebased(LoadedFeeds(feedsFile.data), Len(objs))
            /\ objs' = objs \o LoadedObjs(feedsFile.data, config)
       ELSE \* no file: start fresh; unreadable file: this.feeds = new Map()
            /\ feeds' = EmptyMap
            /\ objs' = objs
    /\ delivered' = [k \in DOMAIN objs' |-> IF k \in DOMAIN delivered THEN delivered[k] ELSE {}]
    /\ redelivered' = [k \in DOMAIN objs' |->
                        IF k \in DOMAIN redelivered THEN redelivered[k] ELSE {}]
    /\ UNCHANGED <<config, client, cronJobs, feedsFile, configFile, ticks, calls,
                   now>>
    /\ UNCHANGED cmdVars

LoadConfig ==
    /\ phase = "loaded"
    /\ phase' = "configured"
    /\ CASE configFile.state = "json" ->
                /\ config' = MergeConfig(config, configFile.data)
                /\ UNCHANGED configFile
         [] configFile.state = "missing" ->
                \* saveConfig writes the defaults
                /\ configFile' = JsonFile(config)
                /\ UNCHANGED config
         [] OTHER -> UNCHANGED <<config, configFile>>
    /\ UNCHANGED <<client, feeds, objs, cronJobs, feedsFile, ticks, calls, now,
                   delivered, redelivered>>
    /\ UNCHANGED cmdVars

-----------------------------------------------------------------------------
(* Scheduler: startFeedCheck, stopFeedCheck, startFeedChecking,            *)
(* stopFeedChecking                                                        *)

\* const feedKey = `${channelId}-${feedUrl}`
FeedKey(d, u) == d \o "-" \o u

Entry(f, os, d, u) == os[f[d][u]]
HasEntry(f, d, u) == Has(f, d) /\ Has(f[d], u)

\* this.cronJobs after stopFeedCheck(channelId, feedUrl)
StopFeedCheck(jobs, d, u) == Del(jobs, FeedKey(d, u))

\* StartFeedCheck without the lookup of the entry: a job is made for any pair
StartFeedCheckNoLookup(jobs, f, os, d, u) ==
    Put(StopFeedCheck(jobs, d, u), FeedKey(d, u),
        [channelId |-> d, feedUrl |-> u,
         intervalMinutes |-> IF HasEntry(f, d, u)
                             THEN Max2(1, Entry(f, os, d, u).interval \div MsPerMinute)
                             ELSE 1])

\* StartFeedCheck without the test of feedInfo.active
StartFeedCheckAny(jobs, f, os, d, u) ==
    LET stopped == StopFeedCheck(jobs, d, u)
    IN IF ~HasEntry(f, d, u)
       THEN stopped
       ELSE Put(stopped, FeedKey(d, u),
                [channelId |-> d, feedUrl |-> u,
                 intervalMinutes |-> Max2(1, Entry(f, os, d, u).interval \div MsPerMinute)])

\* this.cronJobs after startFeedCheck(channelId, feedUrl)
StartFeedCheck(jobs, f, os, d, u) ==
    LET stopped == StopFeedCheck(jobs, d, u)
    IN IF ~HasEntry(f, d, u) \/ ~Entry(f, os, d, u).active
       THEN stopped
       ELSE Put(stopped, FeedKey(d, u),
                [channelId |-> d, feedUrl |-> u,
                 intervalMinutes |-> Max2(1, Entry(f, os, d, u).interval \div MsPerMinute)])

\* node-cron's reading of `*/${intervalMinutes} * * * *`: the job fires at the start
\* of every minute of the hour that intervalMinutes divides, minute 0 included
MinutesPerHour == 60

CronMatches(intervalMinutes, minute) == (minute % MinutesPerHour) % intervalMinutes = 0

\* the first firing of a started job after minute m (minutes count from a full hour)
NextFire(intervalMinutes, m) ==
    CHOOSE t \in (m + 1)..(m + MinutesPerHour) :
        /\ CronMatches(intervalMinutes, t)
        /\ \A x \in (m + 1)..(t - 1) : ~CronMatches(intervalMinutes, x)

RECURSIVE StartAll(_, _, _, _)
StartAll(jobs, f, os, order) ==
    IF order = << >> THEN jobs
    ELSE StartAll(StartFeedCheck(jobs, f, os, order[1][1], order[1][2]), f, os, Tail(order))

StartFeedChecking ==
    /\ phase = "configured"
    /\ phase' = "running"
    /\ client' = TRUE
    /\ cronJobs' = StartAll(cronJobs, feeds, objs, PairsOf(feeds))
    /\ UNCHANGED <<config, feeds, objs, feedsFile, configFile, ticks, calls, now,
                   delivered, redelivered>>
    /\ UNCHANGED cmdVars

\* StopFeedChecking without this.cronJobs.clear()
StopFeedCheckingKeepsJobs ==
    /\ phase = "running"
    /\ phase' = "exited"
    /\ feeds' = EmptyMap
    /\ ticks' = [t \in Ticks |-> IdleTick]
    /\ calls' = [c \in Calls |-> IdleCall]
    /\ UNCHANGED <<config, client, objs, cronJobs, feedsFile, configFile,
                   now, delivered, redelivered>>
    /\ UNCHANGED cmdVars

\* the SIGINT handler: stopFeedChecking(), client.destroy(), process.exit(0)
\* the process ends with its memory: what stays is on disk and in the channels
StopFeedChecking ==
    /\ phase = "running"
    /\ phase' = "exited"
    /\ cronJobs' = EmptyMap
    /\ feeds' = EmptyMap
    /\ ticks' = [t \in Ticks |-> IdleTick]
    /\ calls' = [c \in Calls |-> IdleCall]
    /\ UNCHANGED <<config, client, objs, feedsFile, configFile,
                   now, delivered, redelivered>>
    /\ UNCHANGED cmdVars

-----------------------------------------------------------------------------
(* checkFeed *)

\* CollectLoop with the cap tested by > instead of >=
RECURSIVE CollectLoopOffByOne(_, _, _, _)
CollectLoopOffByOne(items, lastPostId, k, newItems) ==
    IF k > Len(items) THEN newItems
    ELSE IF Truthy(lastPostId) /\ items[k].guid = lastPostId THEN newItems
    ELSE LET pushed == Append(newItems, items[k])
         IN IF Len(pushed) > MaxNewItems THEN pushed
            ELSE CollectLoopOffByOne(items, lastPostId, k + 1, pushed)

\* the for loop that fills newItems, from item k on
RECURSIVE CollectLoop(_, _, _, _)
CollectLoop(items, lastPostId, k, newItems) ==
    IF k > Len(items) THEN newItems
    ELSE IF Truthy(lastPostId) /\ items[k].guid = lastPostId THEN newItems
    ELSE LET pushed == Append(newItems, items[k])
         IN IF Len(pushed) >= MaxNewItems THEN pushed
            ELSE CollectLoop(items, lastPostId, k + 1, pushed)

\* NewItems with only the newest item taken when no item carries the watermark
NewItemsRotatedNewest(items, lastPostId) ==
    IF Truthy(lastPostId) /\ \A k \in 1..Len(items) : items[k].guid # lastPostId
    THEN <<items[1]>>
    ELSE Reverse(CollectLoop(items, lastPostId, 1, << >>))

\* NewItems without newItems.reverse()
NewItemsUnreversed(items, lastPostId) == CollectLoop(items, lastPostId, 1, << >>)

\* newItems after newItems.reverse()
NewItems(items, lastPostId) == Reverse(CollectLoop(items, lastPostId, 1, << >>))

\* HasNews with the first check taken as a baseline that posts nothing
HasNewsBaseline(items, lastPostId) ==
    /\ Len(items) > 0
    /\ Truthy(lastPostId)
    /\ lastPostId # items[1].guid

\* if (feed.items && feed.items.length > 0) { if (!lastPostId || lastPostId !== latestItem.guid)
HasNews(items, lastPostId) ==
    /\ Len(items) > 0
    /\ (~Truthy(lastPostId) \/ lastPostId # items[1].guid)

\* feedInfo after the batch: lastPostId = latestItem.guid when there was one
AfterBatch(o, items, posted) ==
    IF posted THEN [o EXCEPT !.lastPostId = items[1].guid] ELSE o

\* feedInfo.lastChecked = new Date()
Checked(o, t) == [o EXCEPT !.lastChecked = t]

\* FinishCheck with the feedInfo looked up again under (channelId, feedUrl) at the
\* end of the batch, instead of the object the check has held since its start
FinishCheckByKey(t, tk, posted) ==
    LET r == IF HasEntry(feeds, tk.channelId, tk.feedUrl)
             THEN feeds[tk.channelId][tk.feedUrl] ELSE tk.ref
        objs2 == [objs EXCEPT ![r] = Checked(AfterBatch(objs[r], tk.items, posted), now)]
    IN /\ objs' = objs2
       /\ ticks' = [ticks EXCEPT ![t] = [tk EXCEPT !.pc = "save",
                                                   !.feedData = FeedData(feeds, objs2)]]

\* FinishCheck with lastChecked taken from the moment the check was started
FinishCheckAtStart(t, tk, posted) ==
    LET objs2 == [objs EXCEPT ![tk.ref] = Checked(AfterBatch(objs[tk.ref], tk.items, posted), t)]
    IN /\ objs' = objs2
       /\ ticks' = [ticks EXCEPT ![t] = [tk EXCEPT !.pc = "save",
                                                   !.feedData = FeedData(feeds, objs2)]]

\* the tail of checkFeed: update the feedInfo object, build feedData, await the write
FinishCheck(t, tk, posted) ==
    LET objs2 == [objs EXCEPT ![tk.ref] = Checked(AfterBatch(objs[tk.ref], tk.items, posted), now)]
    IN /\ objs' = objs2
       /\ ticks' = [ticks EXCEPT ![t] = [tk EXCEPT !.pc = "save",
                                                   !.feedData = FeedData(feeds, objs2)]]

\* checkFeed(channelId, feedUrl) is called and runs up to `await parser.parseURL`;
\* limit bounds the invocations of a run
CheckFeed(d, u, limit) ==
    /\ phase = "running"
    /\ now < limit
    /\ LET t == now + 1
       IN IF ~client \/ ~HasEntry(feeds, d, u) \/ ~Entry(feeds, objs, d, u).active
          THEN ticks' = [ticks EXCEPT ![t] = [DoneTick("skipped") EXCEPT !.channelId = d,
                                                                    !.feedUrl = u]]
          ELSE ticks' = [ticks EXCEPT ![t] =
                            [IdleTick EXCEPT !.pc = "fetch", !.channelId = d,
                                             !.feedUrl = u, !.ref = feeds[d][u]]]
    /\ now' = now + 1
    /\ UNCHANGED <<phase, config, client, feeds, objs, cronJobs, feedsFile, configFile,
                   calls, delivered, redelivered>>
    /\ UNCHANGED cmdVars

\* a cron job fires: its callback calls this.checkFeed(channelId, feedUrl)
CronFire(key, limit) ==
    /\ key \in DOMAIN cronJobs
    /\ CheckFeed(cronJobs[key].channelId, cronJobs[key].feedUrl, limit)

\* parser.parseURL resolves with a document
ParseOk(t, items) ==
    /\ phase = "running"
    /\ ticks[t].pc = "fetch"
    /\ LET lastPostId == objs[ticks[t].ref].lastPostId
           tk == [ticks[t] EXCEPT !.items = items, !.seen = lastPostId]
       IN IF HasNews(items, lastPostId)
          THEN LET newItems == NewItems(items, lastPostId)
               IN /\ ticks' = [ticks EXCEPT ![t] =
                                 [tk EXCEPT !.pc = "post", !.newItems = newItems,
                                            !.i = 1, !.sent = <<newItems[1]>>]]
                  /\ UNCHANGED objs
          ELSE FinishCheck(t, tk, FALSE)
    /\ UNCHANGED <<phase, config, client, feeds, cronJobs, feedsFile, configFile,
                   calls, now, delivered, redelivered>>
    /\ UNCHANGED cmdVars

\* ParseFail with a catch block that forgets the watermark
ParseFailResets(t) ==
    /\ phase = "running"
    /\ ticks[t].pc = "fetch"
    /\ ticks' = [ticks EXCEPT ![t] = DoneTick("fetchFailed")]
    /\ objs' = [objs EXCEPT ![ticks[t].ref].lastPostId = Null]
    /\ UNCHANGED <<phase, config, client, feeds, cronJobs, feedsFile, configFile,
                   calls, now, delivered, redelivered>>
    /\ UNCHANGED cmdVars

\* ParseFail with a catch block that switches the feed off
ParseFailDeactivates(t) ==
    /\ phase = "running"
    /\ ticks[t].pc = "fetch"
    /\ ticks' = [ticks EXCEPT ![t] = DoneTick("fetchFailed")]
    /\ objs' = [objs EXCEPT ![ticks[t].ref].active = FALSE]
    /\ UNCHANGED <<phase, config, client, feeds, cronJobs, feedsFile, configFile,
                   calls, now, delivered, redelivered>>
    /\ UNCHANGED cmdVars

\* parser.parseURL rejects: the catch block logs and checkFeed returns
ParseFail(t) ==
    /\ phase = "running"
    /\ ticks[t].pc = "fetch"
    /\ ticks' = [ticks EXCEPT ![t] = DoneTick("fetchFailed")]
    /\ UNCHANGED <<phase, config, client, feeds, objs, cronJobs, feedsFile, configFile,
                   calls, now, delivered, redelivered>>
    /\ UNCHANGED cmdVars

\* PostDone with a send error that ends the check
PostDoneAborts(t, ok) ==
    /\ phase = "running"
    /\ ticks[t].pc = "post"
    /\ LET tk == ticks[t]
           g == tk.newItems[tk.i].guid
       IN /\ IF ok /\ g # Undefined
             THEN /\ delivered' = [delivered EXCEPT ![tk.ref] = @ \cup {g}]
                  /\ redelivered' = IF g \in delivered[tk.ref]
                                    THEN [redelivered EXCEPT ![tk.ref] = @ \cup {g}]
                                    ELSE redelivered
             ELSE UNCHANGED <<delivered, redelivered>>
          /\ IF ~ok
             THEN /\ ticks' = [ticks EXCEPT ![t] = DoneTick("postFailed")]
                  /\ UNCHANGED objs
             ELSE IF Len(tk.newItems) > 1
             THEN /\ ticks' = [ticks EXCEPT ![t].pc = "delay"]
                  /\ UNCHANGED objs
             ELSE FinishCheck(t, tk, TRUE)
    /\ UNCHANGED <<phase, config, client, feeds, cronJobs, feedsFile, configFile,
                   calls, now>>
    /\ UNCHANGED cmdVars

\* postFeedItem returns: channel.send delivered the item (ok) or the error was logged
PostDone(t, ok) ==
    /\ phase = "running"
    /\ ticks[t].pc = "post"
    /\ LET tk == ticks[t]
           g == tk.newItems[tk.i].guid
       IN /\ IF ok /\ g # Undefined
             THEN /\ delivered' = [delivered EXCEPT ![tk.ref] = @ \cup {g}]
                  /\ redelivered' = IF g \in delivered[tk.ref]
                                    THEN [redelivered EXCEPT ![tk.ref] = @ \cup {g}]
                                    ELSE redelivered
             ELSE UNCHANGED <<delivered, redelivered>>
          /\ IF Len(tk.newItems) > 1
             THEN /\ ticks' = [ticks EXCEPT ![t].pc = "delay"]
                  /\ UNCHANGED objs
             ELSE FinishCheck(t, tk, TRUE)
    /\ UNCHANGED <<phase, config, client, feeds, cronJobs, feedsFile, configFile,
                   calls, now>>
    /\ UNCHANGED cmdVars

\* the 1000 ms pacing timer fires: next item, or the end of the batch
DelayDone(t) ==
    /\ phase = "running"
    /\ ticks[t].pc = "delay"
    /\ LET tk == ticks[t]
       IN IF tk.i < Len(tk.newItems)
          THEN /\ ticks' = [ticks EXCEPT ![t] =
                              [tk EXCEPT !.pc = "post", !.i = tk.i + 1,
                                         !.sent = Append(tk.sent, tk.newItems[tk.i + 1])]]
               /\ UNCHANGED objs
          ELSE FinishCheck(t, tk, TRUE)
    /\ UNCHANGED <<phase, config, client, feeds, cronJobs, feedsFile, configFile,
                   calls, now, delivered, redelivered>>
    /\ UNCHANGED cmdVars

\* fs.writeJson of checkFeed's saveFeeds settles
CheckSaveDone(t, ok) ==
    /\ phase = "running"
    /\ ticks[t].pc = "save"
    /\ feedsFile' = IF ok THEN JsonFile(ticks[t].feedData) ELSE feedsFile
    /\ ticks' = [ticks EXCEPT ![t] = DoneTick(IF ok THEN "checked" ELSE "saveFailed")]
    /\ UNCHANGED <<phase, config, client, feeds, objs, cronJobs, configFile,
                   calls, now, delivered, redelivered>>
    /\ UNCHANGED cmdVars

\* the snapshots whose fs.writeJson is in flight
WritesInFlight ==
    {ticks[t].feedData : t \in {x \in Ticks : ticks[x].pc = "save"}}
        \cup {calls[c].feedData : c \in {x \in Calls : calls[x].pc = "save"}}

\* the process dies (kill -9, power loss) while fs.writeJson writes data/feeds.json
\* in place: the write has not begun, is complete, or has left a truncated file
Crash ==
    /\ phase = "running"
    /\ WritesInFlight # {}
    /\ phase' = "exited"
    /\ feedsFile' \in {feedsFile, CorruptFile} \cup {JsonFile(data) : data \in WritesInFlight}
    /\ cronJobs' = EmptyMap
    /\ feeds' = EmptyMap
    /\ ticks' = [t \in Ticks |-> IdleTick]
    /\ calls' = [c \in Calls |-> IdleCall]
    /\ UNCHANGED <<config, client, objs, configFile, now, delivered, redelivered>>
    /\ UNCHANGED cmdVars

\* the bot is started again (node index.js): a new process and a new RSSManager();
\* data/feeds.json, data/config.json and what the channels received are as the
\* last process left them
Restart ==
    /\ phase = "exited"
    /\ Len(objs) <= MaxRestarts
    /\ phase' = "constructed"
    /\ config' = DefaultConfig
    /\ client' = FALSE
    /\ UNCHANGED <<feeds, objs, cronJobs, feedsFile, configFile, ticks, calls, now,
                   delivered, redelivered>>
    /\ cooldowns' = EmptyMap
    /\ timers' = {}
    /\ cmds' = [k \in Messages |-> IdleCmd]
    /\ UNCHANGED time

-----------------------------------------------------------------------------
(* addFeed *)

AddIntervals == {Null, 2 * MsPerMinute}

\* the feedData literal of addFeed
NewFeedInfo(u, interval, cfg) ==
    [url |-> u,
     interval |-> IF Truthy(interval) /\ interval # 0 THEN interval ELSE cfg.defaultInterval,
     lastChecked |-> Null,
     lastPostId |-> Null,
     active |-> TRUE]

\* addFeed is called and runs up to `await this.validateFeed(feedUrl)`
AddFeedCall(d, u, interval, limit) ==
    /\ phase = "running"
    /\ Started(calls) < limit
    /\ calls' = [calls EXCEPT ![Started(calls) + 1] =
                    [IdleCall EXCEPT !.pc = "validate", !.op = "addFeed", !.channelId = d,
                                     !.feedUrl = u, !.interval = interval]]
    /\ UNCHANGED <<phase, config, client, feeds, objs, cronJobs, feedsFile, configFile,
                   ticks, now, delivered, redelivered>>

\* this.feeds once addFeed has made sure the channel has a Map
WithChannel(f, d) == IF Has(f, d) THEN f ELSE Put(f, d, EmptyMap)

\* AddCheck without the test for an entry that is already there
AddCheckCapOnly(f, cfg, d, u) ==
    IF Size(WithChannel(f, d)[d]) >= cfg.maxFeedsPerChannel THEN "LimitExceeded"
    ELSE "ok"

\* which way addFeed leaves its checks: the cap first, then the duplicate
AddCheck(f, cfg, d, u) ==
    IF Size(WithChannel(f, d)[d]) >= cfg.maxFeedsPerChannel THEN "LimitExceeded"
    ELSE IF Has(WithChannel(f, d)[d], u) THEN "AlreadyExists"
    ELSE "ok"

\* AddValidated with the channel's Map made before the feed is validated
AddValidatedMakesChannel(c, valid) ==
    /\ phase = "running"
    /\ calls[c].pc = "validate"
    /\ calls[c].op = "addFeed"
    /\ LET d == calls[c].channelId
           u == calls[c].feedUrl
           f1 == WithChannel(feeds, d)
           check == AddCheck(feeds, config, d, u)
       IN IF ~valid
          THEN /\ calls' = [calls EXCEPT ![c] = DoneCall(@, "InvalidFeed")]
               /\ feeds' = f1
               /\ UNCHANGED <<objs, delivered, redelivered>>
          ELSE IF check # "ok"
          THEN /\ calls' = [calls EXCEPT ![c] = DoneCall(@, check)]
               /\ feeds' = f1
               /\ UNCHANGED <<objs, delivered, redelivered>>
          ELSE LET objs2 == Append(objs, NewFeedInfo(u, calls[c].interval, config))
                   f2 == [f1 EXCEPT ![d] = Put(@, u, Len(objs2))]
               IN /\ objs' = objs2
                  /\ feeds' = f2
                  /\ delivered' = Append(delivered, {})
                  /\ redelivered' = Append(redelivered, {})
                  /\ calls' = [calls EXCEPT ![c].pc = "save",
                                            ![c].feedData = FeedData(f2, objs2)]
    /\ UNCHANGED <<phase, config, client, cronJobs, feedsFile, configFile, ticks, now>>
    /\ UNCHANGED cmdVars

\* validateFeed returns: invalid, or valid and addFeed runs up to `await this.saveFeeds()`
AddValidated(c, valid) ==
    /\ phase = "running"
    /\ calls[c].pc = "validate"
    /\ calls[c].op = "addFeed"
    /\ LET d == calls[c].channelId
           u == calls[c].feedUrl
           f1 == WithChannel(feeds, d)
           check == AddCheck(feeds, config, d, u)
       IN IF ~valid
          THEN /\ calls' = [calls EXCEPT ![c] = DoneCall(@, "InvalidFeed")]
               /\ UNCHANGED <<feeds, objs, delivered, redelivered>>
          ELSE IF check # "ok"
          THEN /\ calls' = [calls EXCEPT ![c] = DoneCall(@, check)]
               /\ feeds' = f1
               /\ UNCHANGED <<objs, delivered, redelivered>>
          ELSE LET objs2 == Append(objs, NewFeedInfo(u, calls[c].interval, config))
                   f2 == [f1 EXCEPT ![d] = Put(@, u, Len(objs2))]
               IN /\ objs' = objs2
                  /\ feeds' = f2
                  /\ delivered' = Append(delivered, {})
                  /\ redelivered' = Append(redelivered, {})
                  /\ calls' = [calls EXCEPT ![c].pc = "save",
                                            ![c].feedData = FeedData(f2, objs2)]
    /\ UNCHANGED <<phase, config, client, cronJobs, feedsFile, configFile, ticks, now>>
    /\ UNCHANGED cmdVars

\* AddSaveDone with a catch block that takes the entry out again
AddSaveDoneRollsBack(c, ok) ==
    /\ phase = "running"
    /\ calls[c].pc = "save"
    /\ calls[c].op = "addFeed"
    /\ IF ok
       THEN /\ feedsFile' = JsonFile(calls[c].feedData)
            /\ cronJobs' = StartFeedCheck(cronJobs, feeds, objs,
                                          calls[c].channelId, calls[c].feedUrl)
            /\ calls' = [calls EXCEPT ![c] = DoneCall(@, "Added")]
            /\ UNCHANGED feeds
       ELSE /\ calls' = [calls EXCEPT ![c] = DoneCall(@, "Error")]
            /\ feeds' = IF HasEntry(feeds, calls[c].channelId, calls[c].feedUrl)
                        THEN [d \in DOMAIN feeds |->
                                IF d = calls[c].channelId
                                THEN [u \in DOMAIN feeds[d] \ {calls[c].feedUrl} |-> feeds[d][u]]
                                ELSE feeds[d]]
                        ELSE feeds
            /\ UNCHANGED <<feedsFile, cronJobs>>
    /\ UNCHANGED <<phase, config, client, objs, configFile, ticks, now,
                   delivered, redelivered>>
    /\ UNCHANGED cmdVars

\* fs.writeJson of addFeed's saveFeeds settles: startFeedCheck and success, or the catch block
AddSaveDone(c, ok) ==
    /\ phase = "running"
    /\ calls[c].pc = "save"
    /\ calls[c].op = "addFeed"
    /\ IF ok
       THEN /\ feedsFile' = JsonFile(calls[c].feedData)
            /\ cronJobs' = StartFeedCheck(cronJobs, feeds, objs,
                                          calls[c].channelId, calls[c].feedUrl)
            /\ calls' = [calls EXCEPT ![c] = DoneCall(@, "Added")]
       ELSE /\ calls' = [calls EXCEPT ![c] = DoneCall(@, "Error")]
            /\ UNCHANGED <<feedsFile, cronJobs>>
    /\ UNCHANGED <<phase, config, client, feeds, objs, configFile, ticks, now,
                   delivered, redelivered>>
    /\ UNCHANGED cmdVars

-----------------------------------------------------------------------------
(* removeFeed *)

\* this.feeds after channelFeeds.delete(feedUrl) and the removal of an empty channel
Removed(f, d, u) ==
    IF Size(f[d]) = 1 THEN Del(f, d) ELSE [f EXCEPT ![d] = Del(@, u)]

\* RemoveFeedCall without the call of stopFeedCheck
RemoveFeedCallKeepsJob(d, u, limit) ==
    /\ phase = "running"
    /\ Started(calls) < limit
    /\ LET c == Started(calls) + 1
           call == [IdleCall EXCEPT !.op = "removeFeed", !.channelId = d, !.feedUrl = u]
       IN IF ~HasEntry(feeds, d, u)
          THEN /\ calls' = [calls EXCEPT ![c] = DoneCall(call, "NotFound")]
               /\ UNCHANGED feeds
          ELSE /\ feeds' = Removed(feeds, d, u)
               /\ calls' = [calls EXCEPT ![c] =
                               [call EXCEPT !.pc = "save",
                                            !.feedData = FeedData(feeds', objs)]]
    /\ UNCHANGED <<phase, config, client, objs, cronJobs, feedsFile, configFile, ticks, now,
                   delivered, redelivered>>

\* removeFeed is called and runs up to `await this.saveFeeds()`, or returns not-found
RemoveFeedCall(d, u, limit) ==
    /\ phase = "running"
    /\ Started(calls) < limit
    /\ LET c == Started(calls) + 1
           call == [IdleCall EXCEPT !.op = "removeFeed", !.channelId = d, !.feedUrl = u]
       IN IF ~HasEntry(feeds, d, u)
          THEN /\ calls' = [calls EXCEPT ![c] = DoneCall(call, "NotFound")]
               /\ UNCHANGED <<feeds, cronJobs>>
          ELSE /\ feeds' = Removed(feeds, d, u)
               /\ cronJobs' = StopFeedCheck(cronJobs, d, u)
               /\ calls' = [calls EXCEPT ![c] =
                               [call EXCEPT !.pc = "save",
                                            !.feedData = FeedData(feeds', objs)]]
    /\ UNCHANGED <<phase, config, client, objs, feedsFile, configFile, ticks, now,
                   delivered, redelivered>>

\* fs.writeJson of removeFeed's saveFeeds settles
RemoveSaveDone(c, ok) ==
    /\ phase = "running"
    /\ calls[c].pc = "save"
    /\ calls[c].op = "removeFeed"
    /\ feedsFile' = IF ok THEN JsonFile(calls[c].feedData) ELSE feedsFile
    /\ calls' = [calls EXCEPT ![c] = DoneCall(@, IF ok THEN "Removed" ELSE "Error")]
    /\ UNCHANGED <<phase, config, client, feeds, objs, cronJobs, configFile, ticks, now,
                   delivered, redelivered>>
    /\ UNCHANGED cmdVars

-----------------------------------------------------------------------------
(* Commands: events/messageCreate.js and the newrss / removerss commands *)

Authors == {"a1"}
CommandNames == {"newrss", "removerss"}

NewrssCooldown == 10
RemoverssCooldown == 5

\* command.cooldown, in seconds
Cooldown(name) == IF name = "newrss" THEN NewrssCooldown ELSE RemoverssCooldown

\* first arguments isValidUrl turns down: a URL of another protocol, and text
\* new URL() throws on
FtpUrl == "ftp"
NoUrl == "text"

\* new URL(url).protocol, "" where new URL() throws; the feed URLs are https URLs
Protocol(url) ==
    IF url \in Urls THEN "https:" ELSE IF url = FtpUrl THEN "ftp:" ELSE ""

IsValidUrl(url) == Protocol(url) \in {"http:", "https:"}

\* the arguments after the command name: none, a first argument, or a first
\* argument and the minutes parseInt reads from the second
ArgLists ==
    {<< >>} \cup {<<u>> : u \in {"u1", FtpUrl, NoUrl}}
            \cup {<<"u1", n>> : n \in {0, 2, MaxIntervalMinutes + 1}}

\* the messages that name one of the two commands
CommandMessages ==
    [command : CommandNames, author : Authors, guild : BOOLEAN, hasPerms : BOOLEAN,
     channelId : {"c1"}, args : ArgLists]

DoneCmd(cmd, res) == [cmd EXCEPT !.pc = "done", !.result = res]

\* the checks of messageCreate before the cooldown: guildOnly, permissions, args
Gate(msg) ==
    IF ~msg.guild THEN "GuildOnly"
    ELSE IF ~msg.hasPerms THEN "MissingPermissions"
    ELSE IF Len(msg.args) = 0 THEN "NoArguments"
    ELSE "ok"

\* the checks of newrss.execute / removerss.execute before the loading message
ArgCheck(msg) ==
    IF ~IsValidUrl(msg.args[1]) THEN "InvalidUrl"
    ELSE IF msg.command = "newrss" /\ Len(msg.args) >= 2 /\ msg.args[2] < 1
    THEN "InvalidInterval"
    ELSE IF msg.command = "newrss" /\ Len(msg.args) >= 2 /\ msg.args[2] > MaxIntervalMinutes
    THEN "IntervalTooLong"
    ELSE "ok"

\* timestamps.has(author) && now < timestamps.get(author) + cooldownAmount
OnCooldown(name, author) ==
    /\ Has(cooldowns, name)
    /\ Has(cooldowns[name], author)
    /\ time < cooldowns[name][author] + Cooldown(name)

\* a message arrives: messageCreate runs into command.execute, up to
\* `await message.reply(loading)` or to the reply that turns the message down
MessageCreate(msg, limit) ==
    /\ phase = "running"
    /\ Started(cmds) < limit
    /\ LET k == Started(cmds) + 1
           name == msg.command
           cmd == [IdleCmd EXCEPT !.command = name, !.author = msg.author]
           stamps == IF Has(cooldowns, name) THEN cooldowns[name] ELSE EmptyMap
       IN IF Gate(msg) # "ok"
          THEN /\ cmds' = [cmds EXCEPT ![k] = DoneCmd(cmd, Gate(msg))]
               /\ UNCHANGED <<cooldowns, timers>>
          ELSE IF OnCooldown(name, msg.author)
          THEN /\ cmds' = [cmds EXCEPT ![k] = DoneCmd(cmd, "Cooldown")]
               /\ UNCHANGED <<cooldowns, timers>>
          ELSE /\ cooldowns' = Put(cooldowns, name, Put(stamps, msg.author, time))
               /\ timers' = timers \cup {[cmd |-> k, due |-> time + Cooldown(name)]}
               /\ cmds' = [cmds EXCEPT ![k] =
                    IF ArgCheck(msg) # "ok"
                    THEN [DoneCmd(cmd, ArgCheck(msg)) EXCEPT !.at = time]
                    ELSE [cmd EXCEPT !.pc = "reply", !.at = time,
                                     !.channelId = msg.channelId, !.feedUrl = msg.args[1],
                                     !.interval = IF name = "newrss" /\ Len(msg.args) >= 2
                                                  THEN msg.args[2] * MsPerMinute
                                                  ELSE Null]]
    /\ UNCHANGED <<phase, config, client, feeds, objs, cronJobs, feedsFile, configFile,
                   ticks, calls, now, delivered, redelivered, time>>

\* the loading message is sent and the command calls the manager, or
\* message.reply rejects and the command's catch block answers
CommandReplied(k, ok, limit) ==
    /\ cmds[k].pc = "reply"
    /\ IF ~ok
       THEN /\ cmds' = [cmds EXCEPT ![k] = DoneCmd(@, "Error")]
            /\ UNCHANGED <<phase, config, client, feeds, objs, cronJobs, feedsFile,
                           configFile, ticks, calls, now, delivered, redelivered>>
       ELSE /\ cmds' = [cmds EXCEPT ![k].pc = "manager", ![k].call = Started(calls) + 1]
            /\ IF cmds[k].command = "newrss"
               THEN AddFeedCall(cmds[k].channelId, cmds[k].feedUrl, cmds[k].interval, limit)
               ELSE RemoveFeedCall(cmds[k].channelId, cmds[k].feedUrl, limit)
    /\ UNCHANGED <<time, cooldowns, timers>>

\* a setTimeout callback of messageCreate runs, at its due time or later:
\* timestamps.delete(message.author.id)
CooldownTimerFires(tm) ==
    /\ tm \in timers
    /\ tm.due <= time
    /\ timers' = timers \ {tm}
    /\ cooldowns' = [cooldowns EXCEPT ![cmds[tm.cmd].command] = Del(@, cmds[tm.cmd].author)]
    /\ UNCHANGED <<phase, config, client, feeds, objs, cronJobs, feedsFile, configFile,
                   ticks, calls, now, delivered, redelivered, time, cmds>>

\* the seconds between two readings of the clock
ClockStep == 5

\* wall clock passes
TimePasses ==
    /\ time < MaxTime
    /\ time' = time + ClockStep
    /\ UNCHANGED <<phase, config, client, feeds, objs, cronJobs, feedsFile, configFile,
                   ticks, calls, now, delivered, redelivered, cooldowns, timers, cmds>>

-----------------------------------------------------------------------------
(* getStatistics *)

RECURSIVE SumSizes(_, _)
SumSizes(f, ds) ==
    IF ds = {} THEN 0
    ELSE LET d == CHOOSE x \in ds : TRUE IN Size(f[d]) + SumSizes(f, ds \ {d})

\* getTotalFeedCount()
TotalFeedCount(f) == SumSizes(f, DOMAIN f)

\* getStatistics(): totalFeeds, totalChannels, activeJobs
GetStatistics(f, jobs) ==
    [totalFeeds |-> TotalFeedCount(f), totalChannels |-> Size(f), activeJobs |-> Size(jobs)]

-----------------------------------------------------------------------------
(* Specifications *)

Startup == LoadFeeds \/ LoadConfig \/ StartFeedChecking

\* the checkFeed invocations after their first step, over the documents docs
Checking(docs) ==
    \/ \E t \in Ticks, items \in docs : ParseOk(t, items)
    \/ \E t \in Ticks : ParseFail(t)
    \/ \E t \in Ticks, ok \in BOOLEAN : PostDone(t, ok)
    \/ \E t \in Ticks : DelayDone(t)
    \/ \E t \in Ticks, ok \in BOOLEAN : CheckSaveDone(t, ok)

Polling(limit, docs) ==
    \/ \E key \in DOMAIN cronJobs : CronFire(key, limit)
    \/ Checking(docs)

\* the addFeed / removeFeed calls users make for the (channelId, feedUrl) pairs
\* targets, with the check intervals intervals
Mutating(limit, targets, intervals) ==
    \/ \E p \in targets, interval \in intervals :
            AddFeedCall(p[1], p[2], interval, limit) /\ UNCHANGED cmdVars
    \/ \E c \in Calls, valid \in BOOLEAN : AddValidated(c, valid)
    \/ \E c \in Calls, ok \in BOOLEAN : AddSaveDone(c, ok)
    \/ \E p \in targets : RemoveFeedCall(p[1], p[2], limit) /\ UNCHANGED cmdVars
    \/ \E c \in Calls, ok \in BOOLEAN : RemoveSaveDone(c, ok)

Next == Startup \/ Polling(MaxPolls, Docs) \/ Mutating(MaxCalls, Channels \X Urls, AddIntervals) \/ StopFeedChecking

Spec == Init /\ [][Next]_vars

\* One monitored feed, restored from the snapshot of an earlier run, and its polls
InitPoll ==
    /\ Init
    /\ feedsFile \in {JsonFile([d \in {"c1"} |-> [u \in {"u1"} |-> SavedEntry(u, w)]]) :
                        w \in SavedWatermarks}
    /\ configFile = MissingFile

NextPoll == Startup \/ Polling(MaxPolls, Docs)

SpecPoll == InitPoll /\ [][NextPoll]_vars

\* The same feed with enough cron firings for two checks to be in flight together
NextOverlap == Startup \/ Polling(MaxOverlapPolls, Docs)

SpecOverlap == InitPoll /\ [][NextOverlap]_vars

\* The same feed while it is young, with enough firings for checks to overlap
NextClock == Startup \/ Polling(MaxOverlapPolls, SmallDocs)

SpecClock == InitPoll /\ [][NextClock]_vars

\* checkFeed as a method: a registry restored with an inactive and an active feed,
\* and checkFeed called for any channel and URL
InitInactive ==
    /\ Init
    /\ feedsFile = MixedFile
    /\ configFile = MissingFile

NextInactive ==
    \/ Startup
    \/ \E d \in Channels, u \in Urls : CheckFeed(d, u, MaxOverlapPolls)
    \/ Checking(SmallDocs)

SpecInactive == InitInactive /\ [][NextInactive]_vars

\* The engine as a whole: startup from no, an unreadable or a one-feed snapshot, the
\* polls of young feeds, and addFeed / removeFeed calls arriving at any time
InitEngine ==
    /\ Init
    /\ feedsFile \in {MissingFile, CorruptFile, OneFeedFile(InactiveEntry("u1"))}
                        \cup {OneFeedFile(SavedEntry("u1", w)) : w \in {Null, 1}}
    /\ configFile = MissingFile

NextEngine == Startup \/ Polling(MaxPolls, SmallDocs) \/ Mutating(MaxEngineCalls, {<<"c1", "u1">>}, AddIntervals)

SpecEngine == InitEngine /\ [][NextEngine]_vars

\* One monitored feed and its polls, on a machine that may go down at any moment
NextCrash == NextPoll \/ Crash

SpecCrash == InitPoll /\ [][NextCrash]_vars

\* Saving: one monitored feed and its polls, while users add and remove another feed
InitSave ==
    /\ Init
    /\ feedsFile = OneFeedFile(SavedEntry("u1", Null))
    /\ configFile = MissingFile

NextSave == Startup \/ Polling(MaxPolls, SmallDocs) \/ Mutating(MaxEngineCalls, {"c1"} \X Urls, {Null})

SpecSave == InitSave /\ [][NextSave]_vars

\* The registry: startup from any snapshot and configuration, addFeed, removeFeed, shutdown
NextRegistry == Startup \/ Mutating(MaxCalls, Channels \X Urls, AddIntervals) \/ StopFeedChecking

SpecRegistry == Init /\ [][NextRegistry]_vars

\* addFeed / removeFeed calls that overlap, on one channel of a bot started empty
\* or with an inactive and an active feed
InitAdds ==
    /\ Init
    /\ feedsFile \in {MissingFile, MixedFile}

NextAdds == Startup \/ Mutating(MaxCalls, {"c1"} \X Urls, {Null})

SpecAdds == InitAdds /\ [][NextAdds]_vars

\* One monitored feed while it is young, and a bot that is stopped (SIGINT) and
\* started again at any moment
NextRestart == Startup \/ Polling(MaxOverlapPolls, SmallDocs) \/ StopFeedChecking \/ Restart

SpecRestart == InitSave /\ [][NextRestart]_vars

\* One monitored feed whose saved watermark the provider no longer lists, and its polls
InitRotated ==
    /\ Init
    /\ feedsFile = OneFeedFile(SavedEntry("u1", RotatedWatermark))
    /\ configFile = MissingFile

SpecRotated == InitRotated /\ [][NextPoll]_vars

\* One monitored feed and its polls, while users remove it and add it again
NextReAdd == Startup \/ Polling(MaxPolls, PlainDocs) \/ Mutating(MaxCalls, {<<"c1", "u1">>}, {Null})

SpecReAdd == InitSave /\ [][NextReAdd]_vars

\* the steps an addFeed / removeFeed call takes after it was called
Settling ==
    \/ \E c \in Calls, valid \in BOOLEAN : AddValidated(c, valid)
    \/ \E c \in Calls, ok \in BOOLEAN : AddSaveDone(c, ok)
    \/ \E c \in Calls, ok \in BOOLEAN : RemoveSaveDone(c, ok)

\* the messages users send, the replies of Discord, the cooldown timers and the clock
Commanding(limit, msgs) ==
    \/ \E msg \in msgs : MessageCreate(msg, limit)
    \/ \E k \in Messages, ok \in BOOLEAN : CommandReplied(k, ok, MaxCalls)
    \/ \E tm \in timers : CooldownTimerFires(tm)
    \/ TimePasses

\* One monitored feed and the newrss / removerss messages of one user in one channel
NextCommands == Startup \/ Commanding(MaxMessages, CommandMessages) \/ Settling

SpecCommands == InitSave /\ [][NextCommands]_vars

\* (channelId, feedUrl) pairs whose identifiers hold the "-" that startFeedCheck
\* puts between them, next to a pair without it
KeyTargets == {<<"c1", "u1-u2">>, <<"c1-u1", "u2">>, <<"c1", "u1">>}

\* An empty registry and addFeed / removeFeed calls for those pairs
InitKeys ==
    /\ Init
    /\ feedsFile = MissingFile
    /\ configFile = MissingFile

NextKeys == Startup \/ Mutating(MaxCalls, KeyTargets, {Null})

SpecKeys == InitKeys /\ [][NextKeys]_vars

-----------------------------------------------------------------------------
(* What the claims speak of *)

Min2(a, b) == IF a <= b THEN a ELSE b

\* the first n items of a document
Taken(items, n) == SubSeq(items, 1, Min2(n, Len(items)))

\* sent lists exactly the items of part, last one first
IsOldestFirstOf(sent, part) ==
    /\ Len(sent) = Len(part)
    /\ \A j \in 1..Len(sent) : sent[j] = part[Len(part) + 1 - j]

Matches(items, w) == \E k \in 1..Len(items) : items[k].guid = w

\* the position of the first item that carries guid w
FirstMatch(items, w) ==
    CHOOSE k \in 1..Len(items) :
        items[k].guid = w /\ \A j \in 1..(k - 1) : items[j].guid # w

\* in this step tick t ends its batch: the document is parsed, every item of the
\* batch has been handed to postFeedItem, and the feedInfo object is updated
Completes(t) ==
    /\ ticks[t].pc \in {"fetch", "post", "delay"}
    /\ ticks'[t].pc = "save"

\* in this step the fetch of tick t fails
FetchFails(t) ==
    /\ ticks[t].pc = "fetch"
    /\ ticks'[t].pc = "done"

Parsed(tk) == tk.pc \in {"post", "delay", "save"}

-----------------------------------------------------------------------------
(* Claims on one feed's polls (SpecPoll) *)

\* C1, as stated: a check that finds no watermark posts nothing, whatever the
\* document holds, and leaves the watermark at the guid of the document's first item.
C1_BaselinePostsNothing ==
    [][\A t \in Ticks :
        (ticks[t].pc = "fetch" /\ Parsed(ticks'[t]) /\ ~Truthy(ticks'[t].seen))
            => /\ ticks'[t].pc = "save"
               /\ ticks'[t].sent = << >>
               /\ Len(ticks'[t].items) > 0
                    => objs'[ticks'[t].ref].lastPostId = ticks'[t].items[1].guid]_vars

\* C1, amended: a check that finds no watermark hands the first min(5, n) items of
\* the document to postFeedItem, oldest first, and at the end of the batch the
\* watermark is the guid of the document's first item.
C1_FirstCheckPostsNewest ==
    [][\A t \in Ticks :
        (Completes(t) /\ ~Truthy(ticks'[t].seen))
            => /\ IsOldestFirstOf(ticks'[t].sent, Taken(ticks'[t].items, 5))
               /\ Len(ticks'[t].items) > 0
                    => objs'[ticks'[t].ref].lastPostId = ticks'[t].items[1].guid]_vars

\* a first check of a document of more than 5 items has posted 5 of them
C1_Witness ==
    \E t \in Ticks :
        /\ ticks[t].pc = "save"
        /\ ~Truthy(ticks[t].seen)
        /\ Len(ticks[t].items) > 5
        /\ Len(ticks[t].sent) = 5

\* C2, as stated: no guid is delivered twice to the destination of one feed entry.
C2_AtMostOnce == \A r \in DOMAIN redelivered : redelivered[r] = {}

\* C3, as stated: no two checkFeed invocations of one feed are in flight together.
C3_NoOverlap ==
    \A t1, t2 \in Ticks :
        (t1 # t2 /\ InFlight(ticks[t1]) /\ InFlight(ticks[t2]))
            => <<ticks[t1].channelId, ticks[t1].feedUrl>>
                    # <<ticks[t2].channelId, ticks[t2].feedUrl>>

\* C4: when the watermark W read by the check matches an item of the document,
\* the check posts exactly the items before W's first occurrence (the first 5 of
\* them at most), oldest first, nothing at or after W, and at the end of the batch
\* the watermark is the guid of the document's first item.
C4_Dedup ==
    [][\A t \in Ticks :
        (Completes(t) /\ Truthy(ticks'[t].seen) /\ Matches(ticks'[t].items, ticks'[t].seen))
            => LET tk == ticks'[t]
                   k == FirstMatch(tk.items, tk.seen)
               IN /\ IsOldestFirstOf(tk.sent, Taken(tk.items, Min2(k - 1, 5)))
                  /\ \A j \in 1..Len(tk.sent) : tk.sent[j].guid # tk.seen
                  /\ objs'[tk.ref].lastPostId = tk.items[1].guid]_vars

\* a check has posted the two or more items that precede its watermark
C4_Witness ==
    \E t \in Ticks :
        /\ ticks[t].pc = "save"
        /\ Truthy(ticks[t].seen)
        /\ Matches(ticks[t].items, ticks[t].seen)
        /\ FirstMatch(ticks[t].items, ticks[t].seen) = 4
        /\ Len(ticks[t].sent) = 3
        /\ objs[ticks[t].ref].lastPostId = ticks[t].items[1].guid

\* C5: when more than 5 items precede the watermark, the check posts exactly 5
\* items, the document's first 5, oldest first, and the watermark becomes the
\* guid of the document's first item.
C5_Cap ==
    [][\A t \in Ticks :
        (/\ Completes(t)
         /\ Truthy(ticks'[t].seen)
         /\ Matches(ticks'[t].items, ticks'[t].seen)
         /\ FirstMatch(ticks'[t].items, ticks'[t].seen) - 1 > 5)
            => LET tk == ticks'[t]
               IN /\ Len(tk.sent) = 5
                  /\ \A j \in 1..5 : tk.sent[j] = tk.items[6 - j]
                  /\ objs'[tk.ref].lastPostId = tk.items[1].guid]_vars

\* a check whose watermark is the 7th item of the document has ended its batch
C5_Witness ==
    \E t \in Ticks :
        /\ ticks[t].pc = "save"
        /\ Truthy(ticks[t].seen)
        /\ Matches(ticks[t].items, ticks[t].seen)
        /\ FirstMatch(ticks[t].items, ticks[t].seen) = 7
        /\ Len(ticks[t].sent) = 5

\* C6: a check whose fetch fails posts nothing, leaves the feedInfo's watermark
\* as it was, and returns through its catch block: the cron jobs, the registry
\* and the other invocations are untouched and the engine keeps running.
C6_FetchFailureIsolated ==
    [][\A t \in Ticks :
        FetchFails(t)
            => /\ ticks[t].sent = << >>
               /\ delivered' = delivered
               /\ objs'[ticks[t].ref].lastPostId = objs[ticks[t].ref].lastPostId
               /\ ticks'[t].result = "fetchFailed"
               /\ \A t2 \in Ticks \ {t} : ticks'[t2] = ticks[t2]
               /\ cronJobs' = cronJobs
               /\ feeds' = feeds
               /\ phase' = "running"]_vars

\* a fetch has failed for a feed that has a watermark and a running cron job
C6_Witness ==
    \E t \in Ticks :
        /\ ticks[t].pc = "done"
        /\ ticks[t].result = "fetchFailed"
        /\ HasEntry(feeds, "c1", "u1")
        /\ Truthy(Entry(feeds, objs, "c1", "u1").lastPostId)
        /\ Has(cronJobs, FeedKey("c1", "u1"))

\* C7, as stated: a check whose fetch fails sets lastChecked to the time of the attempt.
C7_FailedFetchAdvancesLastChecked ==
    [][\A t \in Ticks :
        FetchFails(t) => objs'[ticks[t].ref].lastChecked = now]_vars

\* C10, as stated (guids number the items in the order they were published): a
\* watermark that is set is never made absent and never replaced by an older guid.
C10_WatermarkNeverRolledBack ==
    [][\A r \in DOMAIN objs :
        Truthy(objs[r].lastPostId)
            => /\ Truthy(objs'[r].lastPostId)
               /\ objs'[r].lastPostId >= objs[r].lastPostId]_vars

\* C17: whatever a send does, the check goes on: a check that returns from
\* postFeedItem moves to the pacing delay or to the end of the batch, every item of
\* the batch is handed to postFeedItem, and at the end of the batch the watermark
\* is the guid of the document's first item and lastChecked is the time of that
\* moment, delivered or not.
C17_DeliveryFailureIsolated ==
    [][\A t \in Ticks :
        /\ (ticks[t].pc = "post" /\ ticks'[t] # ticks[t])
                => ticks'[t].pc \in {"delay", "save"}
        /\ (Completes(t) /\ ticks'[t].newItems # << >>)
                => /\ ticks'[t].sent = ticks'[t].newItems
                   /\ objs'[ticks'[t].ref].lastPostId = ticks'[t].items[1].guid
                   /\ objs'[ticks'[t].ref].lastChecked = now]_vars

\* a batch has ended whose first send failed and whose last send was delivered
C17_Witness ==
    \E t \in Ticks :
        /\ ticks[t].pc = "save"
        /\ Len(ticks[t].sent) >= 2
        /\ ticks[t].sent[1].guid # Undefined
        /\ ticks[t].sent[1].guid \notin delivered[ticks[t].ref]
        /\ ticks[t].sent[Len(ticks[t].sent)].guid \in delivered[ticks[t].ref]
        /\ objs[ticks[t].ref].lastPostId = ticks[t].items[1].guid

\* C18, as stated: in a batch a pacing delay follows a delivery when, and only when,
\* another delivery follows: after the last delivery the check goes straight to the
\* watermark update.
C18_PacingOnlyBetween ==
    [][\A t \in Ticks :
        (ticks[t].pc = "post" /\ ticks'[t] # ticks[t])
            => IF ticks[t].i < Len(ticks[t].newItems)
               THEN ticks'[t].pc = "delay"
               ELSE ticks'[t].pc = "save"]_vars

\* C11: the lastChecked of a feedInfo object never decreases and, once set, is
\* never absent again, however the checks of the feed interleave (new Date() is
\* read from a clock that is not set back).
C11_LastCheckedMonotone ==
    [][\A r \in DOMAIN objs :
        objs[r].lastChecked # Null
            => /\ objs'[r].lastChecked # Null
               /\ objs'[r].lastChecked >= objs[r].lastChecked]_vars

\* two checks of the feed have both written lastChecked, the second at a later time
C11_Witness ==
    /\ \A t \in 1..2 : ticks[t].pc = "save" \/ ticks[t].result \in {"checked", "saveFailed"}
    /\ Entry(feeds, objs, "c1", "u1").lastChecked = 2

-----------------------------------------------------------------------------
(* Claims on the engine as a whole (SpecEngine) *)

\* two feedInfo objects carry the same watermark: the same guid, or none (null and
\* undefined both mean that no watermark is set)
SameWatermark(a, b) ==
    IF Truthy(a) THEN a = b ELSE ~Truthy(b)

SameEntry(a, b) ==
    /\ a.url = b.url
    /\ a.interval = b.interval
    /\ a.active = b.active
    /\ a.lastChecked = b.lastChecked
    /\ SameWatermark(a.lastPostId, b.lastPostId)

\* C12: whatever the registry holds, what saveFeeds writes and loadFeeds then reads
\* into a fresh manager has the same destinations and URLs and, entry by entry, the
\* same watermark, interval, active flag and lastChecked.
C12_RoundTrip ==
    LET data == FeedData(feeds, objs)
        f2 == LoadedFeeds(data)
        o2 == LoadedObjs(data, DefaultConfig)
    IN /\ DOMAIN f2 = DOMAIN feeds
       /\ \A d \in DOMAIN feeds :
            /\ DOMAIN f2[d] = DOMAIN feeds[d]
            /\ \A u \in DOMAIN feeds[d] : SameEntry(o2[f2[d][u]], objs[feeds[d][u]])

\* C13: with data/feeds.json missing or unreadable, loadFeeds returns normally with
\* an empty registry, initialize goes on to loadConfig and startFeedChecking, and
\* no cron job is created.
C13_LoadNeverFails ==
    [][feedsFile.state # "json"
        => /\ phase = "constructed" => (phase' = "loaded" /\ feeds' = EmptyMap)
           /\ phase = "loaded" => (phase' = "configured" /\ feeds' = EmptyMap)
           /\ phase = "configured"
                => (phase' = "running" /\ feeds' = EmptyMap /\ cronJobs' = EmptyMap)]_vars

\* the engine runs, empty, next to a snapshot it could not read
C13_Witness ==
    /\ phase = "running"
    /\ feedsFile = CorruptFile
    /\ feeds = EmptyMap
    /\ cronJobs = EmptyMap

\* in this step removeFeed is called as call c
RemoveCalled(c) ==
    /\ calls[c].pc = "idle"
    /\ calls'[c].op = "removeFeed"

\* in this step checkFeed invocation t gets as far as its fetch
TickStarts(t) ==
    /\ ticks[t].pc = "idle"
    /\ ticks'[t].pc = "fetch"

\* C14: removeFeed(d, u) on an absent entry returns not-found and leaves the
\* registry, the cron jobs and the snapshot alone; on a present entry it deletes the
\* entry and its cron job at once. No cron job is left without an entry, and a
\* check of (d, u) starts only while the entry and its job are there; a check that
\* is in flight goes on.
C14_Remove ==
    [][/\ \A c \in Calls :
            RemoveCalled(c)
                => LET d == calls'[c].channelId
                       u == calls'[c].feedUrl
                   IN IF HasEntry(feeds, d, u)
                      THEN /\ calls'[c].pc = "save"
                           /\ ~HasEntry(feeds', d, u)
                           /\ ~Has(cronJobs', FeedKey(d, u))
                           /\ ticks' = ticks
                      ELSE /\ calls'[c].pc = "done"
                           /\ calls'[c].result = "NotFound"
                           /\ feeds' = feeds
                           /\ cronJobs' = cronJobs
                           /\ feedsFile' = feedsFile
       /\ \A key \in DOMAIN cronJobs' :
            HasEntry(feeds', cronJobs'[key].channelId, cronJobs'[key].feedUrl)
       /\ \A t \in Ticks :
            TickStarts(t)
                => /\ HasEntry(feeds, ticks'[t].channelId, ticks'[t].feedUrl)
                   /\ Has(cronJobs, FeedKey(ticks'[t].channelId, ticks'[t].feedUrl))]_vars

\* removeFeed has removed the feed while a check of it was in flight, and the
\* check has gone on to the end of its batch
C14_Witness ==
    /\ \E c \in Calls : calls[c].op = "removeFeed" /\ calls[c].result \in {"Removed", "Error"}
    /\ ~HasEntry(feeds, "c1", "u1")
    /\ cronJobs = EmptyMap
    /\ \E t \in Ticks :
        /\ ticks[t].pc = "save"
        /\ ticks[t].channelId = "c1"
        /\ ticks[t].feedUrl = "u1"
        /\ ~Has(ticks[t].feedData, "c1")

\* the snapshot on disk is a save of the registry as it is, and the entry in it
\* has been checked and has a watermark
C12_Witness ==
    /\ phase = "running"
    /\ HasEntry(feeds, "c1", "u1")
    /\ feedsFile = JsonFile(FeedData(feeds, objs))
    /\ Entry(feeds, objs, "c1", "u1").lastChecked # Null
    /\ Truthy(Entry(feeds, objs, "c1", "u1").lastPostId)

-----------------------------------------------------------------------------
(* Claims on the registry (SpecRegistry) *)

\* an addFeed(d, u) has returned success
AddedBefore(d, u) ==
    \E c \in Calls :
        /\ calls[c].op = "addFeed"
        /\ calls[c].result = "Added"
        /\ calls[c].channelId = d
        /\ calls[c].feedUrl = u

\* in this step addFeed call c leaves validateFeed with a valid feed
AddDecides(c) ==
    /\ calls[c].op = "addFeed"
    /\ calls[c].pc = "validate"
    /\ calls'[c].pc # "validate"
    /\ calls'[c].result # "InvalidFeed"

\* C8, as stated: once addFeed(d, u) has succeeded and the entry is there, a further
\* addFeed(d, u) of a valid feed fails with AlreadyExists and the destination keeps
\* its number of entries, at capacity too.
C8_ReAddAlreadyExists ==
    [][\A c \in Calls :
        (/\ AddDecides(c)
         /\ AddedBefore(calls[c].channelId, calls[c].feedUrl)
         /\ HasEntry(feeds, calls[c].channelId, calls[c].feedUrl))
            => /\ calls'[c].pc = "done"
               /\ calls'[c].result = "AlreadyExists"
               /\ Size(feeds'[calls[c].channelId]) = Size(feeds[calls[c].channelId])]_vars

\* C9, as stated: no destination ever holds more than maxFeedsPerChannel entries, and
\* an addFeed to a destination that holds that many fails with LimitExceeded and
\* leaves the destination's entries as they were.
C9_Capacity ==
    [][/\ \A d \in DOMAIN feeds' : Size(feeds'[d]) <= config'.maxFeedsPerChannel
       /\ \A c \in Calls :
            (/\ AddDecides(c)
             /\ Has(feeds, calls[c].channelId)
             /\ Size(feeds[calls[c].channelId]) >= config.maxFeedsPerChannel)
                => /\ calls'[c].result = "LimitExceeded"
                   /\ feeds' = feeds]_vars

\* C15, as stated: while the engine runs and no addFeed / removeFeed call is in
\* flight, every entry with active = true has a cron job.
C15_ActiveScheduled ==
    (phase = "running" /\ \A c \in Calls : ~InFlight(calls[c]))
        => \A d \in DOMAIN feeds : \A u \in DOMAIN feeds[d] :
                Entry(feeds, objs, d, u).active => Has(cronJobs, FeedKey(d, u))

-----------------------------------------------------------------------------
(* Claims on saving (SpecSave) *)

\* in this step the save of an invocation fails
SaveFails(slot, slot2) ==
    /\ slot.pc = "save"
    /\ slot2.result \in {"saveFailed", "Error"}

\* in this step the save of an invocation succeeds
SaveSucceeds(slot, slot2) ==
    /\ slot.pc = "save"
    /\ slot2.result \in {"checked", "Added", "Removed"}

\* in this step an invocation has made its change and builds the snapshot to write
BuildsSnapshot(slot, slot2) ==
    /\ slot.pc # "save"
    /\ slot2.pc = "save"

\* the checkFeed, addFeed and removeFeed invocations before and after a step
Invocations ==
    {<<ticks[t], ticks'[t]>> : t \in Ticks} \cup {<<calls[c], calls'[c]>> : c \in Calls}

\* C19: a save that fails leaves the registry in memory (and the snapshot on disk)
\* as it was; every invocation builds its snapshot from the whole registry in
\* memory, changes with failed saves included, and a save that succeeds writes
\* that snapshot.
C19_SaveFailureKeepsMemory ==
    [][\A s \in Invocations :
        /\ SaveFails(s[1], s[2])
                => (feeds' = feeds /\ objs' = objs /\ feedsFile' = feedsFile)
        /\ BuildsSnapshot(s[1], s[2]) => s[2].feedData = FeedData(feeds', objs')
        /\ SaveSucceeds(s[1], s[2]) => feedsFile' = JsonFile(s[1].feedData)]_vars

\* the save of addFeed(c1, u2) failed, the entry is in memory, and the snapshot a
\* later check of u1 wrote holds it
C19_Witness ==
    /\ \E c \in Calls :
        /\ calls[c].op = "addFeed"
        /\ calls[c].result = "Error"
        /\ calls[c].feedUrl = "u2"
    /\ HasEntry(feeds, "c1", "u2")
    /\ feedsFile.state = "json"
    /\ HasEntry(feedsFile.data, "c1", "u2")
    /\ \E t \in Ticks : ticks[t].result = "checked"

\* C20, as stated: data/feeds.json is at every instant a complete snapshot: a
\* readable file never becomes a partial or mixed one, a crash in the middle of a
\* write included.
C20_SaveAtomic ==
    [][feedsFile.state = "json" => feedsFile'.state = "json"]_vars

-----------------------------------------------------------------------------
(* Claims on checkFeed as a method (SpecInactive) *)

\* in this step checkFeed is called as invocation t
CheckCalled(t) ==
    /\ ticks[t].pc = "idle"
    /\ ticks'[t].pc # "idle"

\* C16: an entry restored with active = false stays in the registry and has no
\* cron job, and a checkFeed called for it returns before the fetch: it delivers
\* nothing and leaves every feedInfo object and the snapshot as they were.
C16_InactiveNeverPolled ==
    [][/\ \A d \in DOMAIN feeds : \A u \in DOMAIN feeds[d] :
            ~Entry(feeds, objs, d, u).active
                => /\ ~Has(cronJobs', FeedKey(d, u))
                   /\ HasEntry(feeds', d, u)
                   /\ Entry(feeds', objs', d, u) = Entry(feeds, objs, d, u)
       /\ \A t \in Ticks :
            (/\ CheckCalled(t)
             /\ HasEntry(feeds, ticks'[t].channelId, ticks'[t].feedUrl)
             /\ ~Entry(feeds, objs, ticks'[t].channelId, ticks'[t].feedUrl).active)
                => /\ ticks'[t].pc = "done"
                   /\ ticks'[t].result = "skipped"
                   /\ objs' = objs
                   /\ delivered' = delivered
                   /\ feedsFile' = feedsFile]_vars

\* checkFeed has been called for the inactive feed and has returned
C16_Witness ==
    /\ phase = "running"
    /\ HasEntry(feeds, "c1", "u1")
    /\ ~Entry(feeds, objs, "c1", "u1").active
    /\ \E t \in Ticks :
        /\ ticks[t].result = "skipped"
        /\ ticks[t].channelId = "c1"
        /\ ticks[t].feedUrl = "u1"

-----------------------------------------------------------------------------
(* Claims on overlapping addFeed calls (SpecAdds) *)

\* addFeed call c holds the entry it has inserted and awaits its save
HoldsInserted(c, d, u) ==
    /\ calls[c].op = "addFeed"
    /\ calls[c].pc = "save"
    /\ calls[c].channelId = d
    /\ calls[c].feedUrl = u

\* addFeed call c awaits the save of an entry (d, u) that is still in the registry
HasInsertedNow(c, d, u) == HoldsInserted(c, d, u) /\ HasEntry(feeds, d, u)

\* C21: the cap test, the duplicate test and the insertion of an addFeed happen in
\* one step, on the registry as it is in that step: a call inserts only an entry
\* that is absent, into a destination below the cap, and the destination then holds
\* one entry more and no more than the cap; a call that finds the destination full
\* or the entry there (the entry of an addFeed(d, u) still awaiting its save
\* included) fails and inserts nothing.
C21_AddsSerialized ==
    [][\A c \in Calls :
        AddDecides(c)
            => LET d == calls[c].channelId
                   u == calls[c].feedUrl
                   before == IF Has(feeds, d) THEN Size(feeds[d]) ELSE 0
               IN /\ calls'[c].pc = "save"
                        => /\ ~HasEntry(feeds, d, u)
                           /\ before < config.maxFeedsPerChannel
                           /\ HasEntry(feeds', d, u)
                           /\ Size(feeds'[d]) = before + 1
                           /\ Size(feeds'[d]) <= config.maxFeedsPerChannel
                           /\ \A c2 \in Calls \ {c} : ~HasInsertedNow(c2, d, u)
                  /\ calls'[c].pc = "done"
                        => /\ calls'[c].result \in {"AlreadyExists", "LimitExceeded"}
                           /\ Size(feeds'[d]) = before
                           /\ \A e \in DOMAIN feeds : feeds'[e] = feeds[e]]_vars

\* addFeed(c1, u1) was called twice before either call returned: one call has
\* inserted the entry and awaits its save, the other has failed with AlreadyExists
C21_Witness ==
    \E c1, c2 \in Calls :
        /\ c1 # c2
        /\ HoldsInserted(c1, "c1", "u1")
        /\ calls[c2].op = "addFeed"
        /\ calls[c2].channelId = "c1"
        /\ calls[c2].feedUrl = "u1"
        /\ calls[c2].result = "AlreadyExists"

-----------------------------------------------------------------------------
(* Claims on checks next to removeFeed and on restarts *)

\* removeFeed call c has deleted the entry (d, u) and its save has succeeded
HasRemoved(c, d, u) ==
    /\ calls[c].op = "removeFeed"
    /\ calls[c].result = "Removed"
    /\ calls[c].channelId = d
    /\ calls[c].feedUrl = u

\* C22, as stated: once removeFeed(d, u) has deleted the entry (here: and has
\* returned success), no step of a check of (d, u) that was in flight brings the
\* entry back, neither into the registry in memory nor into data/feeds.json.
C22_RemovedStaysRemoved ==
    [][\A c \in Calls, t \in Ticks :
        (/\ HasRemoved(c, ticks[t].channelId, ticks[t].feedUrl)
         /\ InFlight(ticks[t])
         /\ ticks'[t] # ticks[t]
         /\ ~HasEntry(feeds, ticks[t].channelId, ticks[t].feedUrl))
            => /\ ~HasEntry(feeds', ticks[t].channelId, ticks[t].feedUrl)
               /\ feedsFile'.state = "json"
                    => ~HasEntry(feedsFile'.data, ticks[t].channelId, ticks[t].feedUrl)]_vars

\* C23, as stated: no guid delivered for a feed before the bot stopped is delivered
\* for it again after the restart (the feedInfo objects of one URL are, in the order
\* of their creation, the entry as each run of the bot restored it).
C23_RestartNoRedelivery ==
    \A k, r \in DOMAIN objs :
        (k < r /\ objs[k].url = objs[r].url) => delivered[k] \cap delivered[r] = {}

\* in this step the SIGINT handler runs
Stops == phase = "running" /\ phase' = "exited"

\* C24: the shutdown leaves this.cronJobs empty; no check starts while there is no
\* cron job for its feed, that is, from the shutdown until startFeedCheck has
\* scheduled the feed again; and the jobs stay away until then.
C24_Shutdown ==
    [][/\ Stops => cronJobs' = EmptyMap
       /\ (phase = "exited" \/ phase' = "exited") => ticks' = [t \in Ticks |-> IdleTick]
       /\ (cronJobs = EmptyMap /\ cronJobs' # EmptyMap) => phase' = "running"
       /\ \A t \in Ticks :
            CheckCalled(t)
                => /\ phase = "running"
                   /\ Has(cronJobs, FeedKey(ticks'[t].channelId, ticks'[t].feedUrl))]_vars

\* the bot was shut down after a cron job had fired, and no job is left
C24_Witness ==
    /\ phase = "exited"
    /\ now >= 1
    /\ cronJobs = EmptyMap
    /\ objs # << >>

-----------------------------------------------------------------------------
(* Claims on addFeed's validation (SpecAdds) *)

\* in this step validateFeed tells addFeed call c that the URL is no feed
ValidationFails(c) ==
    /\ calls[c].op = "addFeed"
    /\ calls[c].pc = "validate"
    /\ calls'[c].result = "InvalidFeed"

\* C25: an addFeed whose URL does not validate returns the InvalidFeed outcome at
\* once: the registry (the channel's record included), the feedInfo objects, the
\* cron jobs and the snapshot on disk are as before, and the call has built no
\* snapshot to write.
C25_InvalidFeedNoTrace ==
    [][\A c \in Calls :
        ValidationFails(c)
            => /\ calls'[c].pc = "done"
               /\ calls'[c].feedData = EmptyMap
               /\ feeds' = feeds
               /\ objs' = objs
               /\ cronJobs' = cronJobs
               /\ feedsFile' = feedsFile]_vars

\* an addFeed to a channel without feeds has failed its validation: the registry
\* is empty, no job runs and no snapshot exists
C25_Witness ==
    /\ phase = "running"
    /\ \E c \in Calls : calls[c].op = "addFeed" /\ calls[c].result = "InvalidFeed"
    /\ \A c \in Calls : ~InFlight(calls[c]) /\ calls[c].result \in {"none", "InvalidFeed"}
    /\ feeds = EmptyMap
    /\ cronJobs = EmptyMap
    /\ feedsFile = MissingFile

-----------------------------------------------------------------------------
(* Claims on intervals and timers (SpecRegistry) *)

\* C26, as stated: every entry of the registry has an interval of 1 minute to 24
\* hours, and an addFeed without interval argument gives its entry the 5-minute
\* default.
C26_IntervalInBounds ==
    [][/\ \A d \in DOMAIN feeds' : \A u \in DOMAIN feeds'[d] :
            /\ Entry(feeds', objs', d, u).interval >= MsPerMinute
            /\ Entry(feeds', objs', d, u).interval <= MaxIntervalMinutes * MsPerMinute
       /\ \A c \in Calls :
            (AddDecides(c) /\ calls'[c].pc = "save" /\ calls[c].interval = Null)
                => Entry(feeds', objs', calls[c].channelId, calls[c].feedUrl).interval
                        = DefaultInterval]_vars

\* C27, as stated: a job created in any minute m of the hour fires first a full
\* interval later, at m + intervalMinutes, and a job that has fired in minute m
\* fires next at m + intervalMinutes.
C27_TimerRecursAtInterval ==
    \A key \in DOMAIN cronJobs : \A m \in 0..(MinutesPerHour - 1) :
        /\ NextFire(cronJobs[key].intervalMinutes, m) = m + cronJobs[key].intervalMinutes
        /\ CronMatches(cronJobs[key].intervalMinutes, m)
                => NextFire(cronJobs[key].intervalMinutes, m)
                        = m + cronJobs[key].intervalMinutes

-----------------------------------------------------------------------------
(* Further claims on one feed's polls (SpecPoll) *)

\* C28, as stated: the identifier checkFeed matches an item by is never absent, and
\* at the end of the batch of a document that has items the watermark is present.
C28_IdentifierNeverAbsent ==
    [][\A t \in Ticks :
        Completes(t)
            => /\ \A k \in 1..Len(ticks'[t].items) : ticks'[t].items[k].guid # Undefined
               /\ Len(ticks'[t].items) > 0 => Truthy(objs'[ticks'[t].ref].lastPostId)]_vars

\* C29: when the watermark read by the check is present and no item of the
\* document carries it, the check hands the first min(5, n) items of the document
\* to postFeedItem, oldest first, and at the end of the batch the watermark is the
\* guid of the document's first item.
C29_RotatedHistory ==
    [][\A t \in Ticks :
        (/\ Completes(t)
         /\ Truthy(ticks'[t].seen)
         /\ ~Matches(ticks'[t].items, ticks'[t].seen))
            => /\ IsOldestFirstOf(ticks'[t].sent, Taken(ticks'[t].items, 5))
               /\ Len(ticks'[t].items) > 0
                    => objs'[ticks'[t].ref].lastPostId = ticks'[t].items[1].guid]_vars

\* a check whose watermark is in none of the 7 items of the document has posted
\* the first 5 of them and has moved the watermark to the first
C29_Witness ==
    \E t \in Ticks :
        /\ ticks[t].pc = "save"
        /\ ticks[t].seen = RotatedWatermark
        /\ ticks[t].items = Window(7)
        /\ Len(ticks[t].sent) = 5
        /\ ticks[t].sent[1] = Item(3)
        /\ objs[ticks[t].ref].lastPostId = 7

-----------------------------------------------------------------------------
(* Claims on successive polls (SpecOverlap) *)

\* the number of items of its document that a check took for new
NewCount(tk) ==
    IF Truthy(tk.seen) /\ Matches(tk.items, tk.seen)
    THEN FirstMatch(tk.items, tk.seen) - 1
    ELSE Len(tk.items)

\* the guids of the new items the check left out of its batch of 5
Dropped(tk) ==
    {tk.items[k].guid : k \in (MaxNewItems + 1)..NewCount(tk)} \ {Undefined}

\* check b follows check a: it was called later and has read the watermark that a
\* left at the end of its batch
Follows(a, b) ==
    /\ a < b
    /\ ticks[a].pc = "save"
    /\ Len(ticks[a].items) > 0
    /\ ticks[b].ref = ticks[a].ref
    /\ Parsed(ticks[b])
    /\ Truthy(ticks[b].seen)
    /\ ticks[b].seen = ticks[a].items[1].guid

\* C30, as stated: an item that was new in a poll and was left out of its batch is
\* not delivered by a poll that follows.
C30_DroppedNeverDelivered ==
    [][\A a, b \in Ticks :
        Follows(a, b)
            => (delivered'[ticks[b].ref] \ delivered[ticks[b].ref]) \cap Dropped(ticks[a]) = {}]_vars

-----------------------------------------------------------------------------
(* Claims that compare behaviours *)

\* what a check that reads watermark w and parses the document items hands to
\* postFeedItem, and the watermark it leaves
PollOutcome(w, items) ==
    IF HasNews(items, w)
    THEN [sent |-> NewItems(items, w), lastPostId |-> items[1].guid]
    ELSE [sent |-> << >>, lastPostId |-> w]

\* every other check called so far has failed at its fetch
OnlyFailuresSoFar(t) ==
    \A a \in Ticks \ {t} :
        ticks[a].pc = "idle" \/ (ticks[a].pc = "done" /\ ticks[a].result = "fetchFailed")

\* C31: a check whose fetch fails leaves the feedInfo objects, the registry, the
\* client and the snapshot as they were; and a check that ends its batch after
\* nothing but failed checks has read the watermark the snapshot was loaded with
\* and posts and leaves what a first check of that snapshot posts and leaves on
\* the same document.
C31_FailedPollInvisible ==
    [][\A t \in Ticks :
        /\ FetchFails(t)
                => /\ objs' = objs
                   /\ feeds' = feeds
                   /\ client' = client
                   /\ feedsFile' = feedsFile
                   /\ delivered' = delivered
        /\ (Completes(t) /\ OnlyFailuresSoFar(t))
                => LET saved == LoadEntry(feedsFile.data[ticks'[t].channelId][ticks'[t].feedUrl],
                                          DefaultConfig)
                       out == PollOutcome(saved.lastPostId, ticks'[t].items)
                   IN /\ ticks'[t].seen = saved.lastPostId
                      /\ ticks'[t].sent = out.sent
                      /\ SameWatermark(objs'[ticks'[t].ref].lastPostId, out.lastPostId)]_vars

\* the first check of the feed failed at its fetch and the second has posted the
\* two items of its document
C31_Witness ==
    /\ ticks[1].result = "fetchFailed"
    /\ ticks[2].pc = "save"
    /\ Len(ticks[2].sent) = 2
    /\ objs[ticks[2].ref].lastPostId = 2

-----------------------------------------------------------------------------
(* Further claims on addFeed / removeFeed *)

\* in this step call c returns success = false
ReturnsFailure(c) ==
    /\ calls[c].pc # "done"
    /\ calls'[c].pc = "done"
    /\ calls'[c].result \notin {"Added", "Removed"}

\* C32, as stated (for a call that no other call overlaps): an addFeed or removeFeed
\* that returns success = false leaves the registry and the cron jobs as they were
\* before the call: a refusal changes nothing, after a failed save the entry
\* addFeed inserted is gone again, and the entry removeFeed deleted and its job
\* are back.
C32_FailureNoChange ==
    [][\A c \in Calls :
        ReturnsFailure(c)
            => LET d == calls'[c].channelId
                   u == calls'[c].feedUrl
               IN CASE calls'[c].result # "Error" ->
                            feeds' = feeds /\ cronJobs' = cronJobs
                    [] calls'[c].result = "Error" /\ calls'[c].op = "addFeed" ->
                            ~HasEntry(feeds', d, u) /\ ~Has(cronJobs', FeedKey(d, u))
                    [] OTHER ->
                            HasEntry(feeds', d, u) /\ Has(cronJobs', FeedKey(d, u))]_vars

\* C33: every cron job is filed under the key of its pair, its pair has an entry in
\* the registry and the entry is active; no two jobs are for the same pair; and
\* getStatistics reports no more activeJobs than totalFeeds.
C33_NoOrphanTimers ==
    /\ \A key \in DOMAIN cronJobs :
            /\ key = FeedKey(cronJobs[key].channelId, cronJobs[key].feedUrl)
            /\ HasEntry(feeds, cronJobs[key].channelId, cronJobs[key].feedUrl)
            /\ Entry(feeds, objs, cronJobs[key].channelId, cronJobs[key].feedUrl).active
    /\ \A k1, k2 \in DOMAIN cronJobs :
            (/\ cronJobs[k1].channelId = cronJobs[k2].channelId
             /\ cronJobs[k1].feedUrl = cronJobs[k2].feedUrl) => k1 = k2
    /\ GetStatistics(feeds, cronJobs).activeJobs <= GetStatistics(feeds, cronJobs).totalFeeds

\* addFeed(d, u) has returned success although removeFeed(d, u) took the entry out
\* while addFeed awaited its save: no entry and no job are left
C33_Witness ==
    \E a, r \in Calls :
        /\ a < r
        /\ calls[a].op = "addFeed"
        /\ calls[a].result = "Added"
        /\ calls[r].op = "removeFeed"
        /\ calls[r].result \in {"Removed", "Error"}
        /\ calls[r].channelId = calls[a].channelId
        /\ calls[r].feedUrl = calls[a].feedUrl
        /\ ~HasEntry(feeds, calls[a].channelId, calls[a].feedUrl)
        /\ ~Has(cronJobs, FeedKey(calls[a].channelId, calls[a].feedUrl))

-----------------------------------------------------------------------------
(* Further claims on saving (SpecSave) *)

\* no invocation is in flight, at least one has saved, and no save has failed
AllSavesSucceeded ==
    /\ phase = "running"
    /\ \A t \in Ticks : ~InFlight(ticks[t]) /\ ticks[t].result # "saveFailed"
    /\ \A c \in Calls : ~InFlight(calls[c]) /\ calls[c].result # "Error"
    /\ \/ \E t \in Ticks : ticks[t].result = "checked"
       \/ \E c \in Calls : calls[c].result \in {"Added", "Removed"}

\* C34, as stated: once every invocation has finished and every write has
\* succeeded, data/feeds.json is a save of the registry as it is in memory.
C34_SnapshotConverges ==
    AllSavesSucceeded => feedsFile = JsonFile(FeedData(feeds, objs))

-----------------------------------------------------------------------------
(* Claims on a feed that is removed and added again (SpecReAdd) *)

\* check t holds the feedInfo of an entry that was removed, and its (channelId,
\* feedUrl) has an entry again
IsOldTick(t) ==
    /\ InFlight(ticks[t])
    /\ HasEntry(feeds, ticks[t].channelId, ticks[t].feedUrl)
    /\ feeds[ticks[t].channelId][ticks[t].feedUrl] # ticks[t].ref

\* C35: no step of a check of the old entry changes the feedInfo of the new entry
\* or the registry, and the snapshot the old check builds holds the new entry as it
\* is; the watermark and lastChecked of a feedInfo change only at the end of a
\* batch of a check that was started for that very object.
C35_ReAddKeepsFreshEntry ==
    [][/\ \A t \in Ticks :
            (IsOldTick(t) /\ ticks'[t] # ticks[t])
                => LET d == ticks[t].channelId
                       u == ticks[t].feedUrl
                   IN /\ feeds' = feeds
                      /\ objs'[feeds[d][u]] = objs[feeds[d][u]]
                      /\ ticks'[t].pc = "save"
                            => ticks'[t].feedData[d][u] = PersistEntry(objs[feeds[d][u]])
       /\ \A r \in DOMAIN objs :
            (\/ objs'[r].lastPostId # objs[r].lastPostId
             \/ objs'[r].lastChecked # objs[r].lastChecked)
                => \E t \in Ticks : ticks[t].ref = r /\ Completes(t)]_vars

\* the feed was removed and added again while its check was posting: the check has
\* ended its batch and set the watermark of the old feedInfo, and the new entry has
\* no watermark and no lastChecked, in memory and in the snapshot the check built
C35_Witness ==
    \E t \in Ticks :
        /\ ticks[t].pc = "save"
        /\ ticks[t].ref \in DOMAIN objs
        /\ HasEntry(feeds, "c1", "u1")
        /\ feeds["c1"]["u1"] # ticks[t].ref
        /\ Truthy(objs[ticks[t].ref].lastPostId)
        /\ objs[ticks[t].ref].lastChecked # Null
        /\ Entry(feeds, objs, "c1", "u1").lastPostId = Null
        /\ Entry(feeds, objs, "c1", "u1").lastChecked = Null
        /\ HasEntry(ticks[t].feedData, "c1", "u1")
        /\ ticks[t].feedData["c1"]["u1"].lastPostId = Null

-----------------------------------------------------------------------------
(* C36: the cooldown of a command *)

\* command.execute was called for message k
Executed(k) == cmds[k].at # Null

\* C36: for one user and one command with cooldown c, no two executions of the
\* command start less than c apart, whatever the order in which the later
\* messages and the timers that delete the cooldown timestamps run
C36_CooldownSpacing ==
    \A j \in Messages, k \in Messages :
        (/\ j < k
         /\ Executed(j) /\ Executed(k)
         /\ cmds[j].command = cmds[k].command
         /\ cmds[j].author = cmds[k].author)
            => cmds[k].at - cmds[j].at >= Cooldown(cmds[k].command)

-----------------------------------------------------------------------------
(* C37: what a message must pass before newrss / removerss reach the manager *)

\* the message comes from a guild, its author has ManageChannels, it has an
\* argument and the argument is an http(s) URL
Admitted(msg) ==
    /\ msg.guild
    /\ msg.hasPerms
    /\ Len(msg.args) > 0
    /\ IsValidUrl(msg.args[1])

\* the cooldown timestamp stored for the author under the command
Stamp(cd, name, author) ==
    IF Has(cd, name) /\ Has(cd[name], author) THEN cd[name][author] ELSE Null

\* addFeed or removeFeed is called in this step
ManagerCalled(c) == calls[c].pc = "idle" /\ calls'[c].pc # "idle"

\* C37: newrss and removerss reach addFeed / removeFeed only for a message from a
\* guild whose author has ManageChannels, with at least one argument and an
\* http(s) URL; a message one of these checks turns down changes neither the
\* registry nor the cooldown timestamp of its author
C37_Gating ==
    [][/\ \A msg \in CommandMessages :
            MessageCreate(msg, MaxMessages)
                => /\ cmds'[Started(cmds) + 1].pc = "reply" => Admitted(msg)
                   /\ ~Admitted(msg)
                        => /\ feeds' = feeds
                           /\ cronJobs' = cronJobs
                           /\ feedsFile' = feedsFile
                           /\ Stamp(cooldowns', msg.command, msg.author)
                                = Stamp(cooldowns, msg.command, msg.author)
       /\ \A c \in Calls :
            ManagerCalled(c)
                => \E k \in Messages : /\ cmds[k].pc = "reply"
                                       /\ cmds'[k].pc = "manager"
                                       /\ cmds'[k].call = c
                                       /\ IsValidUrl(calls'[c].feedUrl)]_vars

-----------------------------------------------------------------------------
(* C38: the keys of this.cronJobs *)

\* the (channelId, feedUrl) pairs of the registry f
PairsIn(f) == UNION {{<<d, u>> : u \in DOMAIN f[d]} : d \in DOMAIN f}

\* the job filed under key is still the job of the pair it was started for
KeepsJob(key) ==
    /\ Has(cronJobs', key)
    /\ cronJobs'[key].channelId = cronJobs[key].channelId
    /\ cronJobs'[key].feedUrl = cronJobs[key].feedUrl

====
